---- MODULE Spec2Model ----
(***************************************************************************)
(* Appointment conflict validation of the careaway server                  *)
(* (services/appointment_scheduling_service/app/api/                       *)
(* appointment-validation.js).                                             *)
(*                                                                         *)
(* Instants are milliseconds since the epoch, as moment() holds them; they *)
(* are modelled as the integers 0..MaxTime.  The repository is the         *)
(* collaborator behind repo.GetAppointment: a map from a party to either   *)
(* null or a document {appointments: [...]}; any single fetch may also     *)
(* reject with a storage error.                                            *)
(***************************************************************************)
EXTENDS Integers, Sequences, FiniteSets, TLC

\* ------------------------------------------------------------------ bounds
MaxTime == 3
MaxLen == 2
MaxAppointments == 1

\* ------------------------------------------------------------ value domains
InitiatorId == "U1"
AppointeeId == "U2"
OtherId == "U3"
Parties == {InitiatorId, AppointeeId}
Runs == {"A", "B"}

Times == 0..MaxTime

MakeAppointment(i, a, s, e) ==
  [initiator |-> i, appointee |-> a, startTime |-> s, endTime |-> e]

\* Well-formed appointments (startTime < endTime) between two given parties.
AppointmentsBetween(i, a) ==
  {MakeAppointment(i, a, s, e) : s \in Times, e \in Times} \cap
  {x \in [initiator : {i}, appointee : {a}, startTime : Times, endTime : Times] :
     x.startTime < x.endTime}

\* Candidates handed to the entry points: the initiator books the appointee.
Candidates == AppointmentsBetween(InitiatorId, AppointeeId)
ModificationCandidates == [original : Candidates, modified : Candidates]

\* Appointments lasting one unit of time.
UnitAppointments == {x \in Candidates : x.endTime = x.startTime + 1}

\* Entries a scanner may meet in a party's list when it is called directly:
\* every appointment between the two parties, and one appointment of each
\* party with a third party.
ListEntries ==
  Candidates \cup
  {MakeAppointment(InitiatorId, OtherId, 0, MaxTime),
   MakeAppointment(OtherId, AppointeeId, 0, MaxTime)}

SeqsUpTo(S, n) == UNION {[1..k -> S] : k \in 0..n}

NoAppointment == MakeAppointment("", "", 0, 0)

\* ---------------------------------------------------------- moment() model
\* moment(x) wraps the instant x; the comparisons are exact on milliseconds.
isBefore(x, y) == x < y
isAfter(x, y) == x > y
momentIsSame(x, y) == x = y

\* ------------------------------------------------------------ pure functions
isSame(firstAppointment, secondAppointment) ==
  LET sameInitiator == firstAppointment.initiator = secondAppointment.initiator
      sameAppointee == firstAppointment.appointee = secondAppointment.appointee
      sameTime == momentIsSame(firstAppointment.startTime, secondAppointment.startTime)
  IN sameAppointee /\ sameInitiator /\ sameTime

\* Mutant of timesConflict: the end-inside test admits equality on the left.
timesConflict_Inclusive(firstAppointment, secondAppointment) ==
  LET firstStartTime == firstAppointment.startTime
      firstEndTime == firstAppointment.endTime
      secondStartTime == secondAppointment.startTime
      secondEndTime == secondAppointment.endTime
      firstTest == ~isAfter(firstStartTime, secondEndTime) /\ isAfter(firstEndTime, secondEndTime)
      secondTest == isBefore(firstStartTime, secondStartTime) /\ isAfter(firstEndTime, secondStartTime)
      thirdTest == momentIsSame(firstStartTime, secondStartTime)
      fourthTest == momentIsSame(firstEndTime, secondEndTime)
  IN firstTest \/ secondTest \/ thirdTest \/ fourthTest

timesConflict(firstAppointment, secondAppointment) ==
  LET firstStartTime == firstAppointment.startTime
      firstEndTime == firstAppointment.endTime
      secondStartTime == secondAppointment.startTime
      secondEndTime == secondAppointment.endTime
      firstTest == isBefore(firstStartTime, secondEndTime) /\ isAfter(firstEndTime, secondEndTime)
      secondTest == isBefore(firstStartTime, secondStartTime) /\ isAfter(firstEndTime, secondStartTime)
      thirdTest == momentIsSame(firstStartTime, secondStartTime)
      fourthTest == momentIsSame(firstEndTime, secondEndTime)
  IN firstTest \/ secondTest \/ thirdTest \/ fourthTest

\* The for-in loop of noConflicts_Create from index i on; break on a conflict.
RECURSIVE CreateLoop(_, _, _)
CreateLoop(appointment, appointmentList, i) ==
  IF i > Len(appointmentList) THEN TRUE
  ELSE IF timesConflict(appointmentList[i], appointment) THEN FALSE
  ELSE CreateLoop(appointment, appointmentList, i + 1)

noConflicts_Create(appointment, appointmentList) ==
  CreateLoop(appointment, appointmentList, 1)

\* The for-in loop of noConflicts_Modify from index i on.
RECURSIVE ModifyLoop(_, _, _)
ModifyLoop(appointments, appointmentList, i) ==
  IF i > Len(appointmentList) THEN TRUE
  ELSE LET match == isSame(appointmentList[i], appointments.original)
       IN IF ~match /\ timesConflict(appointmentList[i], appointments.modified)
          THEN FALSE
          ELSE ModifyLoop(appointments, appointmentList, i + 1)

\* Mutant of noConflicts_Modify: the original is not excluded from the scan.
noConflicts_Modify_NoSkip(appointments, appointmentList) ==
  CreateLoop(appointments.modified, appointmentList, 1)

noConflicts_Modify(appointments, appointmentList) ==
  ModifyLoop(appointments, appointmentList, 1)

\* The scanner an entry point passes to validate as noTimeConflicts.
noTimeConflicts(entryPoint, appointment, appointmentList) ==
  IF entryPoint = "validate_creation"
  THEN noConflicts_Create(appointment, appointmentList)
  ELSE noConflicts_Modify(appointment, appointmentList)

\* ------------------------------------------------------ repository results
NullResult == [kind |-> "null", appointments |-> <<>>]
NotFetched == [kind |-> "notFetched", appointments |-> <<>>]
Rejected == [kind |-> "rejected", appointments |-> <<>>]
Document(list) == [kind |-> "value", appointments |-> list]

\* ----------------------------------------------------------------- verdicts
Success == [success |-> TRUE, reason |-> ""]
InitiatorConflict ==
  [success |-> FALSE,
   reason |-> "Appointment time conflicts with your existing appointment."]
AppointeeConflict ==
  [success |-> FALSE,
   reason |-> "Appointment time conflicts with the appointee's existing appointment."]

Pending == [state |-> "pending", value |-> <<>>]
Fulfilled(v) == [state |-> "fulfilled", value |-> <<v>>]

\* Mutant of resultPasses: a null result is handed to the scanner's caller as
\* a conflict.
resultPasses_NullFails(entryPoint, appointment, result) ==
  result.kind /= "null" /\ noTimeConflicts(entryPoint, appointment, result.appointments)

\* The condition of both if statements of validate:
\* result === null || noTimeConflicts(appointment, result.appointments)
resultPasses(entryPoint, appointment, result) ==
  result.kind = "null" \/ noTimeConflicts(entryPoint, appointment, result.appointments)

\* The verdict validate fulfils with when both fetches fulfil (lines 113-132).
validateVerdict(entryPoint, appointment, initiatorRes, appointeeRes) ==
  IF resultPasses(entryPoint, appointment, initiatorRes)
  THEN IF resultPasses(entryPoint, appointment, appointeeRes)
       THEN Success
       ELSE AppointeeConflict
  ELSE InitiatorConflict

\* ---------------------------------------------------------------- the state
VARIABLES
  repo,             \* party -> what GetAppointment fulfils with for it
  entry,            \* run -> the entry point called, "none" before the call
  appointment,      \* run -> the appointment argument of the call
  pc,               \* run -> where the run stands
  initiatorResult,  \* run -> outcome of repo.GetAppointment(initiator)
  appointeeResult,  \* run -> outcome of repo.GetAppointment(appointee)
  getCalls,         \* run -> the parties GetAppointment was called with, in order
  validatePromise,  \* run -> the promise validate returned
  entryPromise,     \* run -> the promise the entry point returned
  console,          \* what console.log printed, in order
  fn,               \* direct call: the function applied
  args,             \* direct call: its arguments
  ret               \* direct call: <<>> before the call, <<result>> after

vars == <<repo, entry, appointment, pc, initiatorResult, appointeeResult,
          getCalls, validatePromise, entryPromise, console, fn, args, ret>>

runVars == <<entry, appointment, pc, initiatorResult, appointeeResult,
             getCalls, validatePromise, entryPromise, console>>
callVars == <<fn, args, ret>>

\* What the repository may hold for a party: no record at all, or a document
\* listing unit appointments between the two parties and the whole-period
\* appointment the party has with a third party.
StoredEntries(p) ==
  UnitAppointments \cup
  {IF p = InitiatorId
   THEN MakeAppointment(InitiatorId, OtherId, 0, MaxTime)
   ELSE MakeAppointment(OtherId, AppointeeId, 0, MaxTime)}
StoredResults(p) ==
  {NullResult} \cup {Document(l) : l \in SeqsUpTo(StoredEntries(p), MaxAppointments)}
Repositories ==
  {f \in [Parties -> UNION {StoredResults(p) : p \in Parties}] :
     \A p \in Parties : f[p] \in StoredResults(p)}

RunsIdle ==
  /\ entry = [r \in Runs |-> "none"]
  /\ appointment = [r \in Runs |-> NoAppointment]
  /\ pc = [r \in Runs |-> "Idle"]
  /\ initiatorResult = [r \in Runs |-> NotFetched]
  /\ appointeeResult = [r \in Runs |-> NotFetched]
  /\ getCalls = [r \in Runs |-> <<>>]
  /\ validatePromise = [r \in Runs |-> Pending]
  /\ entryPromise = [r \in Runs |-> Pending]
  /\ console = <<>>

NoCall ==
  /\ fn = "none"
  /\ args = <<>>
  /\ ret = <<>>

Init ==
  /\ repo \in Repositories
  /\ RunsIdle
  /\ NoCall

\* ------------------------------------------------------------- entry points
\* Mutant of Enter: the appointment argument is kept in one slot that every
\* call overwrites, instead of in the call's own closure.
Enter_SharedArgument(r, entryPoint, appt) ==
  /\ pc[r] = "Idle"
  /\ entry' = [entry EXCEPT ![r] = entryPoint]
  /\ appointment' = [q \in Runs |-> appt]
  /\ getCalls' = [getCalls EXCEPT ![r] = Append(@, InitiatorId)]
  /\ pc' = [pc EXCEPT ![r] = "FetchingInitiator"]
  /\ UNCHANGED <<repo, initiatorResult, appointeeResult, validatePromise,
                 entryPromise, console, callVars>>

\* validate_creation / validate_modification up to the first suspension: both
\* promises are created and validate calls repo.GetAppointment(initiator).
Enter(r, entryPoint, appt) ==
  /\ pc[r] = "Idle"
  /\ entry' = [entry EXCEPT ![r] = entryPoint]
  /\ appointment' = [appointment EXCEPT ![r] = appt]
  /\ getCalls' = [getCalls EXCEPT ![r] = Append(@, InitiatorId)]
  /\ pc' = [pc EXCEPT ![r] = "FetchingInitiator"]
  /\ UNCHANGED <<repo, initiatorResult, appointeeResult, validatePromise,
                 entryPromise, console, callVars>>

validate_creation(r, appt) == Enter(r, "validate_creation", appt)

validate_modification(r, appts) == Enter(r, "validate_modification", appts)

\* Mutant of InitiatorThen: the appointee lookup is issued whatever the
\* initiator scan found.
InitiatorThen_AlwaysFetch(r) ==
  /\ pc[r] = "FetchingInitiator"
  /\ initiatorResult' = [initiatorResult EXCEPT ![r] = repo[InitiatorId]]
  /\ getCalls' = [getCalls EXCEPT ![r] = Append(@, AppointeeId)]
  /\ IF resultPasses(entry[r], appointment[r], repo[InitiatorId])
     THEN /\ pc' = [pc EXCEPT ![r] = "FetchingAppointee"]
          /\ UNCHANGED <<validatePromise, console>>
     ELSE /\ console' = Append(console, "Error appointment time unavailable for initiator.")
          /\ validatePromise' = [validatePromise EXCEPT ![r] = Fulfilled(InitiatorConflict)]
          /\ pc' = [pc EXCEPT ![r] = "Done"]
  /\ UNCHANGED <<repo, entry, appointment, appointeeResult, entryPromise, callVars>>

\* Mutant of InitiatorThen: an initiator conflict is reported with the
\* appointee's reason.
InitiatorThen_WrongReason(r) ==
  /\ pc[r] = "FetchingInitiator"
  /\ initiatorResult' = [initiatorResult EXCEPT ![r] = repo[InitiatorId]]
  /\ IF resultPasses(entry[r], appointment[r], repo[InitiatorId])
     THEN /\ getCalls' = [getCalls EXCEPT ![r] = Append(@, AppointeeId)]
          /\ pc' = [pc EXCEPT ![r] = "FetchingAppointee"]
          /\ UNCHANGED <<validatePromise, console>>
     ELSE /\ console' = Append(console, "Error appointment time unavailable for initiator.")
          /\ validatePromise' = [validatePromise EXCEPT ![r] = Fulfilled(AppointeeConflict)]
          /\ pc' = [pc EXCEPT ![r] = "Done"]
          /\ UNCHANGED getCalls
  /\ UNCHANGED <<repo, entry, appointment, appointeeResult, entryPromise, callVars>>

\* repo.GetAppointment(initiator) fulfilled: the callback of lines 113-132.
InitiatorThen(r) ==
  /\ pc[r] = "FetchingInitiator"
  /\ initiatorResult' = [initiatorResult EXCEPT ![r] = repo[InitiatorId]]
  /\ IF resultPasses(entry[r], appointment[r], repo[InitiatorId])
     THEN /\ getCalls' = [getCalls EXCEPT ![r] = Append(@, AppointeeId)]
          /\ pc' = [pc EXCEPT ![r] = "FetchingAppointee"]
          /\ UNCHANGED <<validatePromise, console>>
     ELSE /\ console' = Append(console, "Error appointment time unavailable for initiator.")
          /\ validatePromise' = [validatePromise EXCEPT ![r] = Fulfilled(InitiatorConflict)]
          /\ pc' = [pc EXCEPT ![r] = "Done"]
          /\ UNCHANGED getCalls
  /\ UNCHANGED <<repo, entry, appointment, appointeeResult, entryPromise, callVars>>

\* repo.GetAppointment(initiator) rejected: the catch callback of lines
\* 133-135 logs the error; neither fulfill nor reject is called.
InitiatorCatch(r) ==
  /\ pc[r] = "FetchingInitiator"
  /\ initiatorResult' = [initiatorResult EXCEPT ![r] = Rejected]
  /\ console' = Append(console, "error")
  /\ pc' = [pc EXCEPT ![r] = "InitiatorFetchFailed"]
  /\ UNCHANGED <<repo, entry, appointment, appointeeResult, getCalls,
                 validatePromise, entryPromise, callVars>>

\* repo.GetAppointment(appointee) fulfilled: the callback of lines 117-127.
AppointeeThen(r) ==
  /\ pc[r] = "FetchingAppointee"
  /\ appointeeResult' = [appointeeResult EXCEPT ![r] = repo[AppointeeId]]
  /\ IF resultPasses(entry[r], appointment[r], repo[AppointeeId])
     THEN /\ validatePromise' = [validatePromise EXCEPT ![r] = Fulfilled(Success)]
          /\ UNCHANGED console
     ELSE /\ console' = Append(console, "Error appointment time unavailable for appointee.")
          /\ validatePromise' = [validatePromise EXCEPT ![r] = Fulfilled(AppointeeConflict)]
  /\ pc' = [pc EXCEPT ![r] = "Done"]
  /\ UNCHANGED <<repo, entry, appointment, initiatorResult, getCalls,
                 entryPromise, callVars>>

\* repo.GetAppointment(appointee) rejected: the inner chain of line 117 has no
\* rejection handler and is not returned to the outer chain, so no callback
\* of validate runs.
AppointeeRejected(r) ==
  /\ pc[r] = "FetchingAppointee"
  /\ appointeeResult' = [appointeeResult EXCEPT ![r] = Rejected]
  /\ pc' = [pc EXCEPT ![r] = "AppointeeFetchFailed"]
  /\ UNCHANGED <<repo, entry, appointment, initiatorResult, getCalls,
                 validatePromise, entryPromise, console, callVars>>

\* The then callback of an entry point: result => fulfill(result).
EntryThen(r, entryPoint) ==
  /\ entry[r] = entryPoint
  /\ validatePromise[r].state = "fulfilled"
  /\ entryPromise[r].state = "pending"
  /\ entryPromise' = [entryPromise EXCEPT ![r] = validatePromise[r]]
  /\ UNCHANGED <<repo, entry, appointment, pc, initiatorResult, appointeeResult,
                 getCalls, validatePromise, console, callVars>>

validate_creation_then(r) == EntryThen(r, "validate_creation")

validate_modification_then(r) == EntryThen(r, "validate_modification")

\* --------------------------------------------------- one validation at a time
Next ==
  \/ \E a \in Candidates : validate_creation("A", a)
  \/ \E a \in ModificationCandidates : validate_modification("A", a)
  \/ InitiatorThen("A")
  \/ InitiatorCatch("A")
  \/ AppointeeThen("A")
  \/ AppointeeRejected("A")
  \/ validate_creation_then("A")
  \/ validate_modification_then("A")

Spec == Init /\ [][Next]_vars

\* ------------------------------------------------ two validations in flight
\* The calls two concurrent requests make: a booking of the whole period or of
\* its first unit, or a move of the first unit's appointment.
FirstUnit == MakeAppointment(InitiatorId, AppointeeId, 0, 1)
WholePeriod == MakeAppointment(InitiatorId, AppointeeId, 0, MaxTime)
LastPart == MakeAppointment(InitiatorId, AppointeeId, 1, MaxTime)
ConcurrentCreations == {FirstUnit, WholePeriod}
ConcurrentModifications ==
  {[original |-> FirstUnit, modified |-> LastPart],
   [original |-> FirstUnit, modified |-> WholePeriod]}

RunStep(r) ==
  \/ \E a \in ConcurrentCreations : validate_creation(r, a)
  \/ \E a \in ConcurrentModifications : validate_modification(r, a)
  \/ InitiatorThen(r)
  \/ InitiatorCatch(r)
  \/ AppointeeThen(r)
  \/ AppointeeRejected(r)
  \/ validate_creation_then(r)
  \/ validate_modification_then(r)

NextConcurrent == \E r \in Runs : RunStep(r)

SpecConcurrent == Init /\ [][NextConcurrent]_vars

\* ------------------------------------------- the functions called directly
ScanLists == SeqsUpTo(ListEntries, MaxLen)

InitPure ==
  /\ repo = [p \in Parties |-> NullResult]
  /\ RunsIdle
  /\ ret = <<>>
  /\ \/ fn = "timesConflict" /\ args \in ListEntries \X ListEntries
     \/ fn = "noConflicts_Create" /\ args \in Candidates \X ScanLists
     \/ fn = "noConflicts_Modify" /\ args \in ModificationCandidates \X ScanLists

Returns(f, v) ==
  /\ fn = f
  /\ ret = <<>>
  /\ ret' = <<v>>
  /\ UNCHANGED <<repo, runVars, fn, args>>

CallTimesConflict == Returns("timesConflict", timesConflict(args[1], args[2]))

CallNoConflictsCreate ==
  Returns("noConflicts_Create", noConflicts_Create(args[1], args[2]))

CallNoConflictsModify ==
  Returns("noConflicts_Modify", noConflicts_Modify(args[1], args[2]))

NextPure ==
  \/ CallTimesConflict
  \/ CallNoConflictsCreate
  \/ CallNoConflictsModify

SpecPure == InitPure /\ [][NextPure]_vars

\* ===================================================================== claims
Range(q) == {q[i] : i \in 1..Len(q)}

\* Two spans overlap in time.
Overlaps(e, c) == e.startTime < c.endTime /\ c.startTime < e.endTime

\* Run r has an initiator document whose scan reports a conflict.
InitiatorScanConflicts(r) ==
  /\ initiatorResult[r].kind = "value"
  /\ ~noTimeConflicts(entry[r], appointment[r], initiatorResult[r].appointments)

\* The callbacks of run r that may still execute.
RunCallbacks(r) ==
  \/ InitiatorThen(r)
  \/ InitiatorCatch(r)
  \/ AppointeeThen(r)
  \/ AppointeeRejected(r)
  \/ validate_creation_then(r)
  \/ validate_modification_then(r)

FetchFailed(r) == pc[r] \in {"InitiatorFetchFailed", "AppointeeFetchFailed"}

\* C1: when validate_creation fulfils with {success: true}, no appointment in
\* the initiator's or the appointee's fetched list overlaps the candidate.
C1_NoDoubleBooking ==
  \A r \in Runs :
    (entry[r] = "validate_creation" /\ entryPromise[r] = Fulfilled(Success)) =>
      \A e \in Range(initiatorResult[r].appointments) \cup
               Range(appointeeResult[r].appointments) :
        ~Overlaps(e, appointment[r])

C3_TimesConflictSymmetric ==
  (fn = "timesConflict" /\ Len(ret) = 1) =>
    ret[1] = timesConflict(args[2], args[1])

\* C4: a conflict on the initiator's list yields the initiator reason even
\* when the appointee's list conflicts too; the appointee reason is returned
\* only when the initiator's result was null or its scan found no conflict.
C4_InitiatorPrecedence ==
  \A r \in Runs :
    /\ (/\ entryPromise[r].state = "fulfilled"
        /\ InitiatorScanConflicts(r)
        /\ ~resultPasses(entry[r], appointment[r], repo[AppointeeId]))
         => entryPromise[r] = Fulfilled(InitiatorConflict)
    /\ (\/ entryPromise[r] = Fulfilled(AppointeeConflict)
        \/ validatePromise[r] = Fulfilled(AppointeeConflict))
         => (\/ initiatorResult[r].kind = "null"
             \/ /\ initiatorResult[r].kind = "value"
                /\ ~InitiatorScanConflicts(r))

\* C4 witness: both lists conflict and the caller got the initiator reason.
C4_Witness ==
  /\ entryPromise["A"] = Fulfilled(InitiatorConflict)
  /\ InitiatorScanConflicts("A")
  /\ repo[AppointeeId].kind = "value"
  /\ ~resultPasses(entry["A"], appointment["A"], repo[AppointeeId])

\* C5: once a GetAppointment call of a run has rejected, the promise the entry
\* point returned is rejected.
C5_FetchFailureRejects ==
  \A r \in Runs : FetchFailed(r) => entryPromise[r].state = "rejected"

\* C6: noConflicts_Modify returns false exactly when some entry that does not
\* identity-match the original conflicts with the modified appointment; when
\* every entry matches the original it returns true and validate_modification
\* over such lists yields {success: true, reason: ""}.
C6_ModifyExcludesOriginal ==
  (fn = "noConflicts_Modify" /\ Len(ret) = 1) =>
    LET appts == args[1]
        existing == args[2]
        matches(e) == /\ e.initiator = appts.original.initiator
                      /\ e.appointee = appts.original.appointee
                      /\ e.startTime = appts.original.startTime
    IN /\ (ret[1] = FALSE) <=>
            \E i \in 1..Len(existing) :
              ~matches(existing[i]) /\ timesConflict(existing[i], appts.modified)
       /\ (\A i \in 1..Len(existing) : matches(existing[i])) =>
            /\ ret[1] = TRUE
            /\ validateVerdict("validate_modification", appts,
                               Document(existing), Document(existing)) = Success

\* C6 witness: the list holds the original twice, the modified appointment
\* overlaps it, and the scanner returned true.
C6_Witness ==
  /\ fn = "noConflicts_Modify"
  /\ ret = <<TRUE>>
  /\ Len(args[2]) = 2
  /\ \A i \in 1..2 : isSame(args[2][i], args[1].original)
  /\ \E i \in 1..2 : Overlaps(args[2][i], args[1].modified)

\* A null result read as the document of a party with an empty list.
NullAsEmpty(result) == IF result.kind = "null" THEN Document(<<>>) ELSE result

\* C7: the verdict with a null result for a party is the verdict with an empty
\* list for it; two null results give success; a null initiator result still
\* lets the appointee's list be fetched and scanned.
C7_NullIsEmptyList ==
  \A r \in Runs :
    /\ entryPromise[r].state = "fulfilled" =>
         /\ entryPromise[r].value[1] =
              validateVerdict(entry[r], appointment[r],
                              NullAsEmpty(initiatorResult[r]),
                              NullAsEmpty(appointeeResult[r]))
         /\ (initiatorResult[r].kind = "null" /\ appointeeResult[r].kind = "null")
              => entryPromise[r] = Fulfilled(Success)
    /\ initiatorResult[r].kind = "null" =>
         /\ getCalls[r] = <<InitiatorId, AppointeeId>>
         /\ pc[r] \in {"FetchingAppointee", "AppointeeFetchFailed", "Done"}

\* C7 witness: the initiator has no record, the appointee's list was scanned
\* and its conflict reported.
C7_Witness ==
  /\ initiatorResult["A"].kind = "null"
  /\ appointeeResult["A"].kind = "value"
  /\ entryPromise["A"] = Fulfilled(AppointeeConflict)

\* The variables of run r.
RunState(r) ==
  <<entry[r], appointment[r], pc[r], initiatorResult[r], appointeeResult[r],
    getCalls[r], validatePromise[r], entryPromise[r]>>

\* C8: in every interleaving of two runs, a step leaves the repository and the
\* other run's state alone, and a run that fulfils does so with the verdict
\* its own arguments and the repository determine.
C8_RunsIndependent ==
  [][/\ repo' = repo
     /\ \E r \in Runs : \A q \in Runs \ {r} : RunState(q)' = RunState(q)
     /\ \A r \in Runs :
          entryPromise'[r].state = "fulfilled" =>
            entryPromise'[r].value[1] =
              validateVerdict(entry'[r], appointment'[r], repo[InitiatorId],
                              repo[AppointeeId])]_vars

\* C8 witness: run A has fulfilled with the initiator conflict while run B,
\* past its own initiator check on the same repository, awaits the appointee.
C8_Witness ==
  /\ entryPromise["A"] = Fulfilled(InitiatorConflict)
  /\ pc["B"] = "FetchingAppointee"

\* C9: once the repository has answered every fetch a run issued and no
\* callback of the run is left to execute, the entry point's promise is settled.
C9_RunSettles ==
  \A r \in Runs :
    (pc[r] /= "Idle" /\ ~ENABLED RunCallbacks(r)) =>
      entryPromise[r].state \in {"fulfilled", "rejected"}

\* C10: GetAppointment(appointee) is issued at most once, only after the
\* initiator fetch fulfilled and its scan passed; on an initiator conflict the
\* run fulfils with the initiator verdict and never issues the appointee fetch.
C10_InitiatorGatesAppointee ==
  \A r \in Runs :
    /\ Cardinality({i \in 1..Len(getCalls[r]) : getCalls[r][i] = AppointeeId}) <= 1
    /\ AppointeeId \in Range(getCalls[r]) =>
         /\ initiatorResult[r].kind \in {"null", "value"}
         /\ ~InitiatorScanConflicts(r)
    /\ InitiatorScanConflicts(r) =>
         /\ validatePromise[r] = Fulfilled(InitiatorConflict)
         /\ getCalls[r] = <<InitiatorId>>
         /\ appointeeResult[r] = NotFetched

\* C10 witness: an initiator conflict was reported with one fetch issued.
C10_Witness ==
  /\ InitiatorScanConflicts("A")
  /\ entryPromise["A"] = Fulfilled(InitiatorConflict)
  /\ getCalls["A"] = <<InitiatorId>>

====
